---------------------------- MODULE Spec2Model ----------------------------
(***************************************************************************)
(* A model of the AbyssVerb audio processor (Source/PluginProcessor.h,     *)
(* Source/PluginProcessor.cpp): parameter smoothing, violin input          *)
(* conditioner, envelope follower, 8-line FDN reverb, 3-tap vanishing      *)
(* delay, DC blocker and the per-sample routing of processBlock.           *)
(*                                                                         *)
(* Numbers.  The code computes in IEEE single precision.  The model        *)
(* computes in fixed point: an integer v stands for the real v / Q, and    *)
(* every product or quotient is rounded to the nearest unit (MulDiv), as   *)
(* every float operation is rounded to the nearest float.  exp, pow and    *)
(* sin are modelled by Exp2 (a quadratic on the fractional exponent) and   *)
(* Sin (a parabola per half turn); both are exact where the code's         *)
(* arguments are integers or quarter turns.                                *)
(*                                                                         *)
(* Sample rates.  All lengths of the code derive from the sample rate      *)
(* (2 s of delay buffer, base lengths * sr / 44100, timers of 0.05..0.4 s).*)
(* The model prepares at low sample rates (SampleRates) so that buffers    *)
(* hold a few samples and an echo returns within a few steps; every        *)
(* coefficient is computed from the sample rate by the code's formula.     *)
(***************************************************************************)
EXTENDS Integers, Sequences, FiniteSets, TLC

\* ------------------------------------------------------------------ bounds
\* total number of samples processBlock may process in a run
MaxSamples == 3
\* largest block (buffer.getNumSamples()) the host hands to processBlock
MaxBlock == 2
\* number of prepareToPlay calls in a run
MaxPrepares == 2
\* number of parameter writes by the control thread in a run
MaxHostWrites == 1
\* number of samples the DC blocker is run on a constant input
MaxDCSamples == 20
\* how many lengths of the delay buffer a run of silence lasts
Few == 3

\* ------------------------------------------------------- fixed-point numbers
\* the fixed-point unit: the integer v stands for the real number v / Q
Q == 10 * 100

Max(a, b) == IF a >= b THEN a ELSE b
Min(a, b) == IF a <= b THEN a ELSE b
Abs(a) == IF a < 0 THEN -a ELSE a

\* a * n / d rounded to the nearest integer (halves up), d > 0, computed
\* without forming a * n
MulDiv(a, n, d) ==
    LET q == a \div d
        r == a % d
    IN  q * n + ((r * n + d \div 2) \div d)

\* the float product a * b of two fixed-point numbers (a * b / Q rounded as
\* by MulDiv), for operands whose integer product fits the machine word
Mul(a, b) == (a * b + Q \div 2) \div Q

\* a / b for b > 0; a divisor above 2000 is taken to one part in 10, so that
\* the computation stays within the machine word
DivPos(a, b) ==
    IF b > 2 * Q * Q THEN MulDiv(a, Q \div 10, b \div 10) ELSE MulDiv(a, Q, b)

\* the float quotient a / b of two fixed-point numbers, b # 0
Div(a, b) == IF b > 0 THEN DivPos(a, b) ELSE DivPos(-a, -b)

\* juce::jlimit(lo, hi, v)
jlimit(lo, hi, v) == IF v < lo THEN lo ELSE IF hi < v THEN hi ELSE v

\* the element of a one-element set.  Only({ e(x) : x \in {v} }) is e(v) with
\* the local variable x assigned once, as in the code's "float x = v;"
Only(S) == CHOOSE x \in S : TRUE

\* 2^x for a fixed-point x; the fractional part f of x contributes
\* 1 + 0.6563 f + 0.3437 f^2 (exact at f = 0 and f = 1).  Exponents below
\* -30 give 0 (underflow); exponents above 20 are not produced by the
\* parameter values of this model.
Exp2(x) ==
    LET k == x \div Q
        f == x % Q
        m == Q + MulDiv(f, 6563, 10000) + MulDiv(Mul(f, f), 3437, 10000)
    IN  IF k >= 0 THEN m * (2 ^ Min(k, 20))
        ELSE IF k < -30 THEN 0
        ELSE MulDiv(m, 1, 2 ^ (-k))

\* std::exp(x) = 2^(x * log2 e)
Exp(x) == Exp2(MulDiv(x, 14427, 10000))

\* std::pow(10.0f, x) = 2^(x * log2 10)
Pow10(x) == Exp2(MulDiv(x, 33219, 10000))

\* std::sin(2 pi p) for a phase p in turns: 16 p (1/2 - p) on the first half
\* turn, mirrored on the second (exact at every quarter turn)
Sin(p) ==
    LET t == p % Q
        h == Q \div 2
    IN  IF t < h THEN MulDiv(16 * t, h - t, Q)
        ELSE -MulDiv(16 * (t - h), Q - t, Q)

\* std::cos(2 pi p)
Cos(p) == Sin(p + Q \div 4)

\* 2 pi, as a fixed-point number (juce::MathConstants<float>::pi * 2)
TwoPi == MulDiv(Q, 62832, 10000)

\* --------------------------------------------------------------- parameters
\* the 18 parameter ids, in the order of rawParamBuffer and of smooth()
ParamNames ==
    { "piezoCorrect", "bodyResonance", "brightness", "bowSensitivity",
      "reverbDecay", "reverbDampHigh", "reverbDampLow", "reverbModDepth",
      "reverbModRate", "detuneAmount",
      "delayTime", "delayFeedback", "vanishRate", "degradeAmount", "driftAmount",
      "reverbMix", "delayMix", "masterMix" }

\* the default values of createParameterLayout, which are also the member
\* initialisers of SmoothedParameters
Defaults ==
    [ piezoCorrect |-> 500, bodyResonance |-> 500, brightness |-> 500,
      bowSensitivity |-> 500,
      reverbDecay |-> 6000, reverbDampHigh |-> 700, reverbDampLow |-> 300,
      reverbModDepth |-> 500, reverbModRate |-> 300, detuneAmount |-> 0,
      delayTime |-> 400000, delayFeedback |-> 500, vanishRate |-> 300,
      degradeAmount |-> 300, driftAmount |-> 2000,
      reverbMix |-> 400, delayMix |-> 300, masterMix |-> 500 ]

\* the lower and upper end of each NormalisableRange of createParameterLayout
RangeLo ==
    [ piezoCorrect |-> 0, bodyResonance |-> 0, brightness |-> 0,
      bowSensitivity |-> 0,
      reverbDecay |-> 500, reverbDampHigh |-> 0, reverbDampLow |-> 0,
      reverbModDepth |-> 0, reverbModRate |-> 50, detuneAmount |-> 0,
      delayTime |-> 50000, delayFeedback |-> 0, vanishRate |-> 0,
      degradeAmount |-> 0, driftAmount |-> 0,
      reverbMix |-> 0, delayMix |-> 0, masterMix |-> 0 ]

RangeHi ==
    [ piezoCorrect |-> 1000, bodyResonance |-> 1000, brightness |-> 1000,
      bowSensitivity |-> 1000,
      reverbDecay |-> 30000, reverbDampHigh |-> 950, reverbDampLow |-> 800,
      reverbModDepth |-> 3000, reverbModRate |-> 2000, detuneAmount |-> 1000,
      delayTime |-> 1500000, delayFeedback |-> 950, vanishRate |-> 800,
      degradeAmount |-> 1000, driftAmount |-> 10000,
      reverbMix |-> 1000, delayMix |-> 1000, masterMix |-> 1000 ]

\* --- parameter snapshots the control thread may store (the values of the
\* --- atomics behind apvts.getRawParameterValue)
\* fully dry
DryOnly == [Defaults EXCEPT !.masterMix = 0]

\* fully wet with both effect mixes closed; a short delay, so that an echo
\* returns within the run
WetNoFx ==
    [Defaults EXCEPT !.reverbMix = 0, !.delayMix = 0, !.masterMix = 1000,
                     !.delayTime = 50000, !.vanishRate = 0]

\* a snapshot that leaves the documented ranges (a host that breaks the
\* contract): conditioner, delay time, drift and the mixes
OutOfRange ==
    [Defaults EXCEPT !.piezoCorrect = 3000, !.bodyResonance = 4000,
                     !.brightness = 5000, !.delayTime = 3000000,
                     !.driftAmount = 50000, !.delayFeedback = 1500,
                     !.reverbMix = 1500, !.masterMix = 2000]

Snapshots == { Defaults, DryOnly, WetNoFx, OutOfRange }

\* the sample rates prepareToPlay is called with
SampleRates == { 40, 100 }

\* the input samples of one frame, left and right
Frames == { <<0, 0>>, <<20000, -250>> }

\* --------------------------------------------------------- SmoothedParameters
\* SmoothedParameters::reset: smoothingCoeff = exp(-1 / (sampleRate * 0.01))
SmoothingCoeff(sampleRate) == Exp(- ((100 * Q) \div sampleRate))

\* a smoothing step that moves by the fraction coeff instead of 1 - coeff
SmoothOneByCoeff(value, raw, coeff) == value + MulDiv(raw - value, coeff, Q)

\* one element of the loop of SmoothedParameters::smooth:
\* *target += (raw - *target) * (1 - smoothingCoeff)
SmoothOne(value, raw, coeff) == value + MulDiv(raw - value, Q - coeff, Q)

\* SmoothedParameters::smooth
Smooth(values, rawTargets, coeff) ==
    [n \in ParamNames |-> SmoothOne(values[n], rawTargets[n], coeff)]

\* ----------------------------------------------------- ViolinInputConditioner
\* the members of a default-constructed ViolinInputConditioner
CondInit ==
    [ hpCoeff |-> 990, hpState |-> 0,
      bodyB0 |-> Q, bodyB1 |-> 0, bodyB2 |-> 0, bodyA1 |-> 0, bodyA2 |-> 0,
      bodyX1 |-> 0, bodyX2 |-> 0, bodyY1 |-> 0, bodyY2 |-> 0,
      piezoCorrect |-> Q, bodyResonance |-> 500, brightness |-> 500 ]

\* ViolinInputConditioner::reset
CondReset(c) ==
    [c EXCEPT !.hpState = 0, !.bodyX1 = 0, !.bodyX2 = 0, !.bodyY1 = 0, !.bodyY2 = 0]

\* ViolinInputConditioner::prepare: reset, the 80 Hz high-pass coefficient and
\* the normalised peaking-EQ coefficients (300 Hz, Q = 2, +6 dB)
CondPrepare(c, sampleRate) ==
    LET omega == (300 * Q) \div sampleRate      \* in turns: omega / (2 pi)
        alpha == MulDiv(Sin(omega), 1, 4)        \* sin(omega) / (2 * bodyQ)
        A     == Pow10(MulDiv(6 * Q, 1, 40))     \* 10^(bodyGain / 40)
        b0    == Q + Mul(alpha, A)
        b1    == -2 * Cos(omega)
        b2    == Q - Mul(alpha, A)
        a0    == Q + Div(alpha, A)
        a1    == -2 * Cos(omega)
        a2    == Q - Div(alpha, A)
    IN  [CondReset(c) EXCEPT
            !.hpCoeff = Exp(- MulDiv(TwoPi, 80, sampleRate)),
            !.bodyB0 = Div(b0, a0), !.bodyB1 = Div(b1, a0), !.bodyB2 = Div(b2, a0),
            !.bodyA1 = Div(a1, a0), !.bodyA2 = Div(a2, a0)]

\* ViolinInputConditioner::setParameters
CondSetParameters(c, piezoCorrect, bodyResonance, brightness) ==
    [c EXCEPT !.piezoCorrect = piezoCorrect, !.bodyResonance = bodyResonance,
              !.brightness = brightness]

\* the clamp of the body-resonance filter output before the blend
BodyLimit(bodyOut) == jlimit(-10 * Q, 10 * Q, bodyOut)

\* a conditioner that returns the brightness blend without the final clamp
OutputUnlimited(brightOut) == brightOut

\* the clamp of the conditioner's return value
OutputLimit(brightOut) == jlimit(-Q, Q, brightOut)

\* ViolinInputConditioner::process: the new state, the value returned (out)
\* and the body-resonance value that enters the blend (body); bodyRaw is the
\* filter output before its clamp, brightOut the value before the final clamp
CondProcess(c, input) ==
    LET hp        == Mul(input, Q - c.hpCoeff) + Mul(c.hpState, c.hpCoeff)
        corrected == input - Mul(hp, c.piezoCorrect)
        bodyRaw   == Mul(c.bodyB0, corrected) + Mul(c.bodyB1, c.bodyX1)
                     + Mul(c.bodyB2, c.bodyX2)
                     - Mul(c.bodyA1, c.bodyY1) - Mul(c.bodyA2, c.bodyY2)
        body      == BodyLimit(bodyRaw)
        half      == MulDiv(c.bodyResonance, 1, 2)
        withBody  == Mul(corrected, Q - half) + Mul(body, half)
        brightOut == Mul(withBody, Q + MulDiv(c.brightness, 3, 10))
    IN  [ state |-> [c EXCEPT !.hpState = hp,
                              !.bodyX2 = c.bodyX1, !.bodyX1 = corrected,
                              !.bodyY2 = c.bodyY1, !.bodyY1 = bodyRaw],
          out |-> OutputLimit(brightOut),
          body |-> body, bodyRaw |-> bodyRaw, brightOut |-> brightOut ]

\* ------------------------------------------------------------ EnvelopeFollower
\* the members of a default-constructed EnvelopeFollower
EnvInit ==
    [ attackCoeff |-> 990, releaseCoeff |-> 999, envelope |-> 0, sensitivity |-> 500 ]

\* EnvelopeFollower::prepare: attack 1 ms, release 100 ms, then reset
EnvPrepare(e, sampleRate) ==
    [e EXCEPT !.attackCoeff = Exp(- ((1000 * Q) \div sampleRate)),
              !.releaseCoeff = Exp(- ((10 * Q) \div sampleRate)),
              !.envelope = 0]

\* EnvelopeFollower::setSensitivity
EnvSetSensitivity(e, sensitivity) == [e EXCEPT !.sensitivity = sensitivity]

\* EnvelopeFollower::getCurrent
EnvGetCurrent(e) == e.envelope

\* EnvelopeFollower::process: the new state and the value returned
EnvProcess(e, input) ==
    LET absInput == Abs(input)
        env == IF absInput > e.envelope
               THEN absInput + Mul(e.envelope - absInput, e.attackCoeff)
               ELSE absInput + Mul(e.envelope - absInput, e.releaseCoeff)
    IN  [ state |-> [e EXCEPT !.envelope = env],
          out |-> Mul(env, Q \div 2 + MulDiv(e.sensitivity, 1, 2)) ]

\* -------------------------------------------------------------- AbyssFDNReverb
NUM_LINES == 8
Lines == 0 .. (NUM_LINES - 1)

\* baseLengths of AbyssFDNReverb::prepare, in samples at 44.1 kHz
BaseLengths == <<1557, 1617, 1491, 1422, 1277, 1356, 1188, 1116>>

\* std::vector<float>::resize(len, 0.0f): the elements kept, zeros appended
Resize(vec, len) == [k \in 1 .. len |-> IF k <= Len(vec) THEN vec[k] ELSE 0]

\* std::fill(begin, end, 0.0f)
Fill0(vec) == [k \in 1 .. Len(vec) |-> 0]

\* element idx (from 0) of a vector
At(vec, idx) == vec[idx + 1]

RECURSIVE SumTo(_, _)
\* f[0] + ... + f[n]
SumTo(f, n) == IF n < 0 THEN 0 ELSE f[n] + SumTo(f, n - 1)

\* a write cursor that is advanced without wrapping
NextWritePosNoWrap(writePos, len) == writePos + 1

\* writePos = (writePos + 1) % len, of a reverb line and of the delay buffer
NextWritePos(writePos, len) == (writePos + 1) % len

\* the members of a default-constructed AbyssFDNReverb
FDNInit ==
    [ sr |-> 44100,
      delayLines |-> [i \in Lines |-> <<>>],
      writePos |-> [i \in Lines |-> 0],
      dampState |-> [i \in Lines |-> 0],
      damp2State |-> [i \in Lines |-> 0],
      lfoPhase |-> [i \in Lines |-> 0],
      decay |-> 6000, dampHighCoeff |-> 700, dampLowCoeff |-> 300,
      modDepth |-> 500, modRate |-> 300, detuneAmount |-> 0 ]

\* the length of line i: static_cast<size_t>(baseLengths[i] * sr / 44100.0)
LineLength(i, sampleRate) == (BaseLengths[i + 1] * sampleRate) \div 44100

\* AbyssFDNReverb::prepare
FDNPrepare(r, sampleRate) ==
    [r EXCEPT
        !.sr = sampleRate,
        !.delayLines = [i \in Lines |-> Resize(r.delayLines[i], LineLength(i, sampleRate))],
        !.writePos = [i \in Lines |-> 0],
        !.dampState = [i \in Lines |-> 0],
        !.lfoPhase = [i \in Lines |-> MulDiv(i * Q, 1, NUM_LINES)]]

\* a clear that resets the damping filters and leaves the lines as they are
FDNClearKeepsLines(r) ==
    [r EXCEPT
        !.dampState = [i \in Lines |-> 0],
        !.damp2State = [i \in Lines |-> 0]]

\* AbyssFDNReverb::clear
FDNClear(r) ==
    [r EXCEPT
        !.delayLines = [i \in Lines |-> Fill0(r.delayLines[i])],
        !.dampState = [i \in Lines |-> 0],
        !.damp2State = [i \in Lines |-> 0]]

\* AbyssFDNReverb::setParameters
FDNSetParameters(r, decayTime, dampHigh, dampLow, modDepth, modRate, detuneAmount) ==
    [r EXCEPT !.decay = decayTime, !.dampHighCoeff = dampHigh, !.dampLowCoeff = dampLow,
              !.modDepth = modDepth, !.modRate = modRate, !.detuneAmount = detuneAmount]

\* the LFO phase of line i after its increment and single wrap
FDNLfoPhase(r, i) ==
    LET inc == MulDiv(Mul(r.modRate, Q + MulDiv(r.detuneAmount * i, 1, 10)), 1, r.sr)
        ph  == r.lfoPhase[i] + inc
    IN  IF ph >= Q THEN ph - Q ELSE ph

\* modSamples = lfo * modDepth * (sr / 1000), from the advanced LFO phase
FDNModSamples(r, phase) == MulDiv(Mul(Sin(phase), r.modDepth), r.sr, 1000)

\* a read position wrapped by "if (readPosF < 0) readPosF += len"
FDNReadPosWrappedOnce(writePos, len, modSamples) ==
    LET pos == writePos * Q - len * Q + modSamples
    IN  IF pos < 0 THEN pos + len * Q ELSE pos

\* readPosF = writePos - len + modSamples, then the loop
\* "while (readPosF < 0) readPosF += len"
FDNReadPos(writePos, len, modSamples) ==
    LET pos == writePos * Q - len * Q + modSamples
    IN  IF pos < 0 THEN pos % (len * Q) ELSE pos

\* readIdx0 = static_cast<size_t>(readPosF) % len
FDNReadIdx0(readPosF, len) == (readPosF \div Q) % len

\* readIdx1 = (readIdx0 + 1) % len
FDNReadIdx1(readIdx0, len) == (readIdx0 + 1) % len

\* the read of line i: LFO, modulation offset, read position, the two
\* interpolation indices and the interpolated value outputs[i]
FDNRead(r, i) ==
    Only({ Only({ Only({
        LET len  == Len(r.delayLines[i])
            idx0 == FDNReadIdx0(pos, len)
            idx1 == FDNReadIdx1(idx0, len)
            frac == pos % Q
        IN  [ phase |-> phase, mod |-> mod, pos |-> pos, idx0 |-> idx0, idx1 |-> idx1,
              out |-> Mul(At(r.delayLines[i], idx0), Q - frac)
                      + Mul(At(r.delayLines[i], idx1), frac) ]
        : pos \in {FDNReadPos(r.writePos[i], Len(r.delayLines[i]), mod)} })
        : mod \in {FDNModSamples(r, phase)} })
        : phase \in {FDNLfoPhase(r, i)} })

RECURSIVE BitAnd(_, _)
\* i & j
BitAnd(i, j) ==
    IF i = 0 \/ j = 0 THEN 0
    ELSE (i % 2) * (j % 2) + 2 * BitAnd(i \div 2, j \div 2)

RECURSIVE Popcount(_)
\* the loop "while (bits) { popcount += bits & 1; bits >>= 1; }"
Popcount(bits) == IF bits = 0 THEN 0 ELSE (bits % 2) + Popcount(bits \div 2)

\* a sign that is negative as soon as the indices share a bit
HadamardSignAnyBit(i, j) == IF BitAnd(i, j) = 0 THEN 1 ELSE -1

\* the sign of entry (i, j) of the feedback matrix
HadamardSign(i, j) == IF Popcount(BitAnd(i, j)) % 2 = 0 THEN 1 ELSE -1

\* the feedback matrix before its scaling
Hadamard == [i \in Lines |-> [j \in Lines |-> HadamardSign(i, j)]]

\* scale = 1 / sqrt(NUM_LINES)
FDNScale == MulDiv(Q, 35355, 100000)

\* feedback[i] before its scaling: sum over j of sign(i, j) * outputs[j]
HadamardMix(outputs, i) ==
    SumTo([j \in Lines |-> Hadamard[i][j] * outputs[j]], NUM_LINES - 1)

\* feedback[i] = scale * sum over j of sign(i, j) * outputs[j]
FDNFeedback(outputs, i) == Mul(HadamardMix(outputs, i), FDNScale)

\* the divisor of the decay-gain exponent: decay * sr
FDNDecayDivisor(r) == r.decay * r.sr

\* g = pow(10, -3 * len / (decay * sr)).  A zero divisor makes the IEEE
\* quotient -infinity and the power 0.
FDNDecayGain(r, i) ==
    IF FDNDecayDivisor(r) = 0 THEN 0
    ELSE Pow10(Div(-3 * Len(r.delayLines[i]) * Q, FDNDecayDivisor(r)))

\* AbyssFDNReverb::process: the new state and the value returned; g, idx0,
\* idx1 and mod are the decay gains, read indices and modulation offsets used
FDNProcess(r, input) ==
    Only({ Only({ Only({ Only({ Only({ Only({
        [ state |-> [r EXCEPT
                        !.lfoPhase = [i \in Lines |-> read[i].phase],
                        !.dampState = dampSt,
                        !.damp2State = damp2,
                        !.delayLines = [i \in Lines |->
                            [r.delayLines[i] EXCEPT ![r.writePos[i] + 1] = damp2[i]]],
                        !.writePos = [i \in Lines |->
                            NextWritePos(r.writePos[i], Len(r.delayLines[i]))]],
          out |-> Mul(SumTo(outputs, NUM_LINES - 1), FDNScale),
          g |-> g,
          divisor |-> FDNDecayDivisor(r),
          idx0 |-> [i \in Lines |-> read[i].idx0],
          idx1 |-> [i \in Lines |-> read[i].idx1],
          mod |-> [i \in Lines |-> read[i].mod],
          pos |-> [i \in Lines |-> read[i].pos],
          outputs |-> outputs,
          mixed |-> [i \in Lines |-> HadamardMix(outputs, i)] ]
        : damp2 \in {[i \in Lines |->
              LET dampL == Q - MulDiv(r.dampLowCoeff, 1, 2)
              IN  Mul(dampSt[i], dampL) + Mul(r.damp2State[i], Q - dampL)]} })
        : dampSt \in {[i \in Lines |->
              LET dampH == Q - MulDiv(r.dampHighCoeff, 95, 100)
              IN  Mul(sig[i], dampH) + Mul(r.dampState[i], Q - dampH)]} })
        : sig \in {[i \in Lines |->
              Mul(FDNFeedback(outputs, i), g[i]) + MulDiv(input, 1, NUM_LINES)]} })
        : g \in {[i \in Lines |-> FDNDecayGain(r, i)]} })
        : outputs \in {[i \in Lines |-> read[i].out]} })
        : read \in {[i \in Lines |-> FDNRead(r, i)]} })

\* --------------------------------------------------------------- VanishingDelay
NUM_TAPS == 3
Taps == 0 .. (NUM_TAPS - 1)

\* tapRatios: 1.0, 0.618, 0.382
TapRatios == <<Q, 618, 382>>

\* --- std::mt19937 rng.  The generator is modelled by a 16-bit linear
\* --- congruential generator: what the code relies on is a deterministic
\* --- state advanced by every draw, not the Mersenne-Twister sequence.
RngModulus == 2 ^ 16

\* the state after one draw
RngNext(state) == (25173 * state + 13849) % RngModulus

\* the state after rng.seed(value)
RngSeed(value) == value % RngModulus

\* std::uniform_real_distribution<float>(0, 1) on the state just drawn: [0, 1)
RngUnit(state) == (state * Q) \div RngModulus

\* std::uniform_int_distribution<int>(lo, hi) on the state just drawn
RngInt(state, lo, hi) == lo + (state % (hi - lo + 1))

\* the seed VanishingDelay::prepare gives the generator
DelaySeed == 42

\* the members of a default-constructed VanishingDelay (the default seed of
\* std::mt19937 is 5489)
DelayInit ==
    [ sr |-> 44100, buffer |-> <<>>, writePos |-> 0,
      delayTimeMs |-> 400000, feedback |-> 500, vanishRate |-> 300,
      degradeAmount |-> 300, driftAmount |-> 2000,
      tapGainTarget |-> [i \in Taps |-> 0],
      tapGainCurrent |-> [i \in Taps |-> 0],
      tapTimer |-> [i \in Taps |-> 0],
      tapDriftPhase |-> [i \in Taps |-> 0],
      degradeLPState |-> [i \in Taps |-> 0],
      rng |-> RngSeed(5489) ]

\* a prepare that seeds the generator from the block size
DelayPrepareSeededByBlock(d, sampleRate, samplesPerBlock) ==
    [d EXCEPT
        !.sr = sampleRate,
        !.buffer = Resize(d.buffer, sampleRate * 2),
        !.writePos = 0,
        !.rng = RngSeed(DelaySeed + samplesPerBlock),
        !.tapGainTarget = [i \in Taps |-> Q],
        !.tapGainCurrent = [i \in Taps |-> Q],
        !.tapTimer = [i \in Taps |-> 0],
        !.tapDriftPhase = [i \in Taps |-> i * 330],
        !.degradeLPState = [i \in Taps |-> 0]]

\* VanishingDelay::prepare (samplesPerBlock is not used by the code)
DelayPrepare(d, sampleRate, samplesPerBlock) ==
    [d EXCEPT
        !.sr = sampleRate,
        !.buffer = Resize(d.buffer, sampleRate * 2),
        !.writePos = 0,
        !.rng = RngSeed(DelaySeed),
        !.tapGainTarget = [i \in Taps |-> Q],
        !.tapGainCurrent = [i \in Taps |-> Q],
        !.tapTimer = [i \in Taps |-> 0],
        !.tapDriftPhase = [i \in Taps |-> i * 330],
        !.degradeLPState = [i \in Taps |-> 0]]

\* VanishingDelay::clear
DelayClear(d) ==
    [d EXCEPT
        !.buffer = Fill0(d.buffer),
        !.degradeLPState = [i \in Taps |-> 0],
        !.tapGainCurrent = [i \in Taps |-> Q],
        !.tapGainTarget = [i \in Taps |-> Q]]

\* VanishingDelay::setParameters
DelaySetParameters(d, delayTimeMs, feedback, vanishRate, degradeAmount, driftAmount) ==
    [d EXCEPT !.delayTimeMs = delayTimeMs, !.feedback = feedback,
              !.vanishRate = vanishRate, !.degradeAmount = degradeAmount,
              !.driftAmount = driftAmount]

\* a lower bound of 0 samples
TimerLoZero(sampleRate) == 0

\* the bounds of timeDist: static_cast<int>(sr * 0.05), static_cast<int>(sr * 0.4)
TimerLo(sampleRate) == (sampleRate * 5) \div 100

TimerHi(sampleRate) == (sampleRate * 4) \div 10

\* the vanish step of tap i, drawing from generator state rng: the timer is
\* decremented, and at <= 0 a roll picks the new target and a new timer
TapVanish(d, i, rng) ==
    LET timer == d.tapTimer[i] - 1
        s1    == RngNext(rng)
        roll  == RngUnit(s1)
        gone  == roll < d.vanishRate
        s2    == IF gone THEN s1 ELSE RngNext(s1)
        s3    == RngNext(s2)
    IN  IF timer <= 0
        THEN [ rng |-> s3, reroll |-> TRUE,
               target |-> IF gone THEN 0 ELSE MulDiv(RngUnit(s2), 7, 10) + 300,
               timer |-> RngInt(s3, TimerLo(d.sr), TimerHi(d.sr)) ]
        ELSE [ rng |-> rng, reroll |-> FALSE,
               target |-> d.tapGainTarget[i], timer |-> timer ]

\* a gain that jumps to its target
TapGainJump(current, target) == target

\* the smooth gain transition: current += (target - current) * 0.001
TapGainStep(current, target) == current + MulDiv(target - current, 1, 1000)

\* the drift phase of tap i after its increment and single wrap
TapDriftPhase(d, i) ==
    LET ph == d.tapDriftPhase[i] + MulDiv(MulDiv(d.driftAmount, 1, 10), 1, d.sr)
    IN  IF ph >= Q THEN ph - Q ELSE ph

\* delaySamples before its clamp: delayTimeMs * ratio * (sr / 1000) + drift,
\* drift from the advanced drift phase
TapDelayRaw(d, i, phase) ==
    MulDiv(MulDiv(d.delayTimeMs, TapRatios[i + 1], Q), d.sr, 1000)
    + MulDiv(Mul(Sin(phase), d.driftAmount), d.sr, 1000)

\* a clamp of the delay length whose upper limit is the buffer size itself
TapDelayLimitToBufSize(bufSize, delaySamples) == jlimit(Q, bufSize * Q, delaySamples)

\* delaySamples = jlimit(1, bufSize - 1, delaySamples)
TapDelayLimit(bufSize, delaySamples) == jlimit(Q, (bufSize - 1) * Q, delaySamples)

\* readPosF = writePos - delaySamples, then "if (readPosF < 0) readPosF += bufSize"
TapReadPos(writePos, bufSize, delaySamples) ==
    LET pos == writePos * Q - delaySamples
    IN  IF pos < 0 THEN pos + bufSize * Q ELSE pos

\* readIdx0 = static_cast<size_t>(readPosF) % bufSize
TapReadIdx0(readPosF, bufSize) == (readPosF \div Q) % bufSize

\* readIdx1 = (readIdx0 + 1) % bufSize
TapReadIdx1(readIdx0, bufSize) == (readIdx0 + 1) % bufSize

\* the bit-depth reduction: round(tapOut * levels) / levels, with
\* levels = 2^(16 - degradeAmount * 12) taken to the nearest integer
TapBitReduce(d, tapOut) ==
    LET levels == MulDiv(Exp2(16 * Q - 12 * d.degradeAmount), 1, Q)
    IN  IF d.degradeAmount > 10
        THEN MulDiv(MulDiv(tapOut, levels, Q), Q, levels)
        ELSE tapOut

\* the read of tap i: drift, delay length, read position, interpolation,
\* degrade low-pass and bit reduction
TapRead(d, i) ==
    Only({ Only({ Only({
        LET bufSize == Len(d.buffer)
            idx0    == TapReadIdx0(pos, bufSize)
            idx1    == TapReadIdx1(idx0, bufSize)
            frac    == pos % Q
            tapOut  == Mul(At(d.buffer, idx0), Q - frac) + Mul(At(d.buffer, idx1), frac)
            lpCoeff == Q - MulDiv(d.degradeAmount, 9, 10)
        IN  Only({ [ phase |-> phase, delay |-> delay, pos |-> pos,
                     idx0 |-> idx0, idx1 |-> idx1,
                     lp |-> lp, out |-> TapBitReduce(d, lp) ]
                   : lp \in {Mul(tapOut, Q - lpCoeff)
                             + Mul(d.degradeLPState[i], lpCoeff)} })
        : pos \in {TapReadPos(d.writePos, Len(d.buffer), delay)} })
        : delay \in {TapDelayLimit(Len(d.buffer), TapDelayRaw(d, i, phase))} })
        : phase \in {TapDriftPhase(d, i)} })

\* VanishingDelay::process: the new state and the value returned; delay,
\* idx0, idx1 are the delay lengths and read indices used, reroll the taps
\* whose target was re-rolled
DelayProcess(d, input) ==
    Only({ Only({ Only({ Only({ Only({ Only({ Only({
        [ state |-> [d EXCEPT
                        !.rng = v2.rng,
                        !.tapGainTarget = [i \in Taps |-> v[i].target],
                        !.tapTimer = [i \in Taps |-> v[i].timer],
                        !.tapGainCurrent = cur,
                        !.tapDriftPhase = [i \in Taps |-> read[i].phase],
                        !.degradeLPState = [i \in Taps |-> read[i].lp],
                        !.buffer = [d.buffer EXCEPT ![d.writePos + 1] =
                                        input + Mul(output, d.feedback)],
                        !.writePos = NextWritePos(d.writePos, Len(d.buffer))],
          out |-> output,
          delay |-> [i \in Taps |-> read[i].delay],
          idx0 |-> [i \in Taps |-> read[i].idx0],
          idx1 |-> [i \in Taps |-> read[i].idx1],
          reroll |-> [i \in Taps |-> v[i].reroll] ]
        : output \in {MulDiv(SumTo([i \in Taps |-> Mul(read[i].out, cur[i])],
                                   NUM_TAPS - 1), 1, NUM_TAPS)} })
        : read \in {[i \in Taps |-> TapRead(d, i)]} })
        : cur \in {[i \in Taps |-> TapGainStep(d.tapGainCurrent[i], v[i].target)]} })
        : v \in {[i \in Taps |-> IF i = 0 THEN v0 ELSE IF i = 1 THEN v1 ELSE v2]} })
        : v2 \in {TapVanish(d, 2, v1.rng)} })
        : v1 \in {TapVanish(d, 1, v0.rng)} })
        : v0 \in {TapVanish(d, 0, d.rng)} })

\* ------------------------------------------------- AbyssVerbV1AudioProcessor
VARIABLES
    pc,              \* where the host is: "constructed", "prepared" (prepareToPlay
                     \* returned, no block since), "block" (inside the sample loop
                     \* of processBlock), "idle" (between two blocks)
    host,            \* the 18 atomics behind apvts.getRawParameterValue(id)
    rawParamBuffer,  \* rawParamBuffer[18]
    smoothed,        \* the 18 values of SmoothedParameters smoothed
    smoothingCoeff,  \* smoothed.smoothingCoeff
    condL, condR,    \* inputConditionerL, inputConditionerR
    envL, envR,      \* envelopeFollowerL, envelopeFollowerR
    reverbL, reverbR,
    delayL, delayR,
    dcBlock,         \* dcBlockL_x1, dcBlockL_y1, dcBlockR_x1, dcBlockR_y1
    block,           \* buffer.getNumSamples() and the loop variable sample
    obs,             \* what the last loop iteration read, computed and wrote
    smoothLog,       \* the last call of smoothed.smooth: values before and after,
                     \* targets, and the run of calls with these targets (start, n)
    counts           \* samples processed, prepareToPlay calls, host writes;
                     \* heard: frames other than silence since the last
                     \* prepareToPlay; quiet: frames of silence in a row

vars == << pc, host, rawParamBuffer, smoothed, smoothingCoeff, condL, condR,
           envL, envR, reverbL, reverbR, delayL, delayR, dcBlock, block, obs,
           smoothLog, counts >>

\* rawParamBuffer has no initialiser; it is written by prepareToPlay and by
\* processBlock before it is read, so its first content is never observed
Unread == [n \in ParamNames |-> 0]

\* a DC blocker whose pole is at 1: y[n] = x[n] - x[n-1] + y[n-1]
DCBlockNoLeak(wet, x1, y1) == wet - x1 + y1

\* the DC blocker: y[n] = x[n] - x[n-1] + 0.995 * y[n-1]
DCBlock(wet, x1, y1) == wet - x1 + MulDiv(y1, 995, 1000)

\* a wet sum that does not scale the reverb by reverbMix
WetMixReverbUnscaled(revOut, delOut, reverbMix, delayMix) == revOut + Mul(delOut, delayMix)

\* the wet sum: revOut * reverbMix + delOut * delayMix
WetMix(revOut, delOut, reverbMix, delayMix) == Mul(revOut, reverbMix) + Mul(delOut, delayMix)

\* a dry/wet mix that does not scale the wet signal by masterMix
DryWetMixWetUnscaled(dry, wet, masterMix) == Mul(dry, Q - masterMix) + wet

\* the dry/wet mix: dry * (1 - masterMix) + wet * masterMix
DryWetMix(dry, wet, masterMix) == Mul(dry, Q - masterMix) + Mul(wet, masterMix)

\* a right channel that is handed the delay time of the left channel
DelayTimeSame(ch, sm) == sm.delayTime

\* the delayTime and driftAmount handed to the delay of a channel
DelayTimeFor(ch, sm) == IF ch = "R" THEN MulDiv(sm.delayTime, 107, 100) ELSE sm.delayTime

DriftFor(ch, sm) == IF ch = "R" THEN MulDiv(sm.driftAmount, 115, 100) ELSE sm.driftAmount

\* a right channel that is handed a larger vanishRate than the left one
VanishRateWidened(ch, sm) ==
    IF ch = "R" THEN MulDiv(sm.vanishRate, 115, 100) ELSE sm.vanishRate

\* the vanishRate handed to the delay of a channel: smoothed.vanishRate
VanishRateFor(ch, sm) == sm.vanishRate

\* a reverb input that leaves the delay output of the sample out
ReverbInputDry(conditioned, delOut, delayMix) == conditioned

\* reverbInL = conditionedL + delayOutL * delayMix
ReverbInput(conditioned, delOut, delayMix) == conditioned + Mul(delOut, delayMix)

\* the stages of one iteration of the sample loop for one channel, after
\* smoothed.smooth: the setParameters calls, then conditioner, envelope
\* follower, delay, reverb, wet sum, DC blocker and dry/wet mix
ChannelStages(ch, cond, env, reverb, delay, x1, y1, dry, sm) ==
    LET c0 == CondSetParameters(cond, sm.piezoCorrect, sm.bodyResonance, sm.brightness)
        e0 == EnvSetSensitivity(env, sm.bowSensitivity)
        r0 == FDNSetParameters(reverb, sm.reverbDecay, sm.reverbDampHigh,
                               sm.reverbDampLow, sm.reverbModDepth,
                               sm.reverbModRate, sm.detuneAmount)
        d0 == DelaySetParameters(delay, DelayTimeFor(ch, sm), sm.delayFeedback,
                                 VanishRateFor(ch, sm), sm.degradeAmount,
                                 DriftFor(ch, sm))
    IN  Only({ Only({ Only({ Only({ Only({ Only({ Only({
        [ cond |-> c.state, env |-> e.state, reverb |-> r.state, delay |-> d.state,
          x1 |-> wet, y1 |-> dcOut,
          out |-> DryWetMix(dry, dcOut, sm.masterMix),
          see |-> [ dry |-> dry, conditioned |-> c.out, body |-> c.body,
                    bodyRaw |-> c.bodyRaw, brightOut |-> c.brightOut,
                    envOut |-> e.out, delOut |-> d.out, reverbIn |-> reverbIn,
                    revOut |-> r.out, wet |-> wet, dcX1 |-> x1, dcY1 |-> y1,
                    dcOut |-> dcOut,
                    tapDelay |-> d.delay, tapIdx0 |-> d.idx0, tapIdx1 |-> d.idx1,
                    bufSize |-> Len(delay.buffer), reroll |-> d.reroll,
                    g |-> r.g, divisor |-> r.divisor,
                    lineOut |-> r.outputs, mixed |-> r.mixed,
                    lineIdx0 |-> r.idx0, lineIdx1 |-> r.idx1,
                    linePos |-> r.pos, lineMod |-> r.mod ] ]
        : dcOut \in {DCBlock(wet, x1, y1)} })
        : wet \in {WetMix(r.out, d.out, sm.reverbMix, sm.delayMix)} })
        : r \in {FDNProcess(r0, reverbIn)} })
        : reverbIn \in {ReverbInput(c.out, d.out, sm.delayMix)} })
        : d \in {DelayProcess(d0, c.out)} })
        : e \in {EnvProcess(e0, c.out)} })
        : c \in {CondProcess(c0, dry)} })

\* an iteration whose written sample is scaled by the envelope follower's
\* return value
ChannelSampleEnvGain(ch, cond, env, reverb, delay, x1, y1, dry, sm) ==
    Only({ [c EXCEPT !.out = Mul(@, c.see.envOut)]
           : c \in {ChannelStages(ch, cond, env, reverb, delay, x1, y1, dry, sm)} })

\* one iteration of the sample loop for one channel
ChannelSample(ch, cond, env, reverb, delay, x1, y1, dry, sm) ==
    ChannelStages(ch, cond, env, reverb, delay, x1, y1, dry, sm)

NoSee ==
    [ dry |-> 0, conditioned |-> 0, body |-> 0, bodyRaw |-> 0, brightOut |-> 0,
      envOut |-> 0, delOut |-> 0, reverbIn |-> 0, revOut |-> 0, wet |-> 0,
      dcX1 |-> 0, dcY1 |-> 0, dcOut |-> 0,
      tapDelay |-> [i \in Taps |-> Q], tapIdx0 |-> [i \in Taps |-> 0],
      tapIdx1 |-> [i \in Taps |-> 0], bufSize |-> 0,
      reroll |-> [i \in Taps |-> FALSE],
      g |-> [i \in Lines |-> 0], divisor |-> 1,
      lineOut |-> [i \in Lines |-> 0], mixed |-> [i \in Lines |-> 0],
      lineIdx0 |-> [i \in Lines |-> 0], lineIdx1 |-> [i \in Lines |-> 0],
      linePos |-> [i \in Lines |-> 0], lineMod |-> [i \in Lines |-> 0] ]

\* nothing processed yet
NoObs ==
    [ valid |-> FALSE, L |-> NoSee, R |-> NoSee, outL |-> 0, outR |-> 0,
      sm |-> Defaults, targets |-> Unread, writes |-> 0,
      heard |-> 0, quiet |-> 0 ]

\* no call of smooth yet
NoSmooth ==
    [ n |-> 0, start |-> Defaults, before |-> Defaults, after |-> Defaults,
      targets |-> Unread, coeff |-> 999 ]

\* the log of a call of smooth that took the values from before to after
LogSmooth(log, before, after, targets, coeff) ==
    IF log.n > 0 /\ log.targets = targets /\ log.coeff = coeff
    THEN [log EXCEPT !.n = @ + 1, !.before = before, !.after = after]
    ELSE [ n |-> 1, start |-> before, before |-> before, after |-> after,
           targets |-> targets, coeff |-> coeff ]

\* the state after construction, but for what has been observed
Constructed ==
    /\ pc = "constructed"
    /\ host = Defaults
    /\ rawParamBuffer = Unread
    /\ smoothed = Defaults
    /\ smoothingCoeff = 999
    /\ condL = CondInit /\ condR = CondInit
    /\ envL = EnvInit /\ envR = EnvInit
    /\ reverbL = FDNInit /\ reverbR = FDNInit
    /\ delayL = DelayInit /\ delayR = DelayInit
    /\ dcBlock = [L_x1 |-> 0, L_y1 |-> 0, R_x1 |-> 0, R_y1 |-> 0]
    /\ block = [numSamples |-> 0, sample |-> 0, loaded |-> Unread, writes |-> 0]
    /\ smoothLog = NoSmooth
    /\ counts = [samples |-> 0, prepares |-> 0, writes |-> 0, heard |-> 0,
                 quiet |-> 0]

\* the state after construction
Init == Constructed /\ obs = NoObs

\* the control thread stores new parameter values (UI, automation); it may
\* do so at any time, also while a block is being processed
HostWrite(snapshot) ==
    /\ counts.writes < MaxHostWrites
    /\ snapshot # host
    /\ host' = snapshot
    /\ counts' = [counts EXCEPT !.writes = @ + 1]
    /\ UNCHANGED << pc, rawParamBuffer, smoothed, smoothingCoeff, condL, condR,
                    envL, envR, reverbL, reverbR, delayL, delayR, dcBlock, block,
                    obs, smoothLog >>

\* the 18 loads of prepareToPlay and of processBlock
LoadRaw(params) == [n \in ParamNames |-> params[n]]

\* AbyssVerbV1AudioProcessor::prepareToPlay (the host never calls it while
\* processBlock runs)
PrepareToPlay(sampleRate, samplesPerBlock) ==
    /\ pc # "block"
    /\ counts.prepares < MaxPrepares
    /\ condL' = CondPrepare(condL, sampleRate)
    /\ condR' = CondPrepare(condR, sampleRate)
    /\ envL' = EnvPrepare(envL, sampleRate)
    /\ envR' = EnvPrepare(envR, sampleRate)
    /\ reverbL' = FDNClear(FDNPrepare(reverbL, sampleRate))
    /\ reverbR' = FDNClear(FDNPrepare(reverbR, sampleRate))
    /\ delayL' = DelayClear(DelayPrepare(delayL, sampleRate, samplesPerBlock))
    /\ delayR' = DelayClear(DelayPrepare(delayR, sampleRate, samplesPerBlock))
    /\ smoothingCoeff' = SmoothingCoeff(sampleRate)
    /\ rawParamBuffer' = LoadRaw(host)
    /\ smoothed' = Smooth(smoothed, rawParamBuffer', smoothingCoeff')
    /\ smoothLog' = LogSmooth(smoothLog, smoothed, smoothed', rawParamBuffer',
                              smoothingCoeff')
    /\ dcBlock' = [L_x1 |-> 0, L_y1 |-> 0, R_x1 |-> 0, R_y1 |-> 0]
    /\ pc' = "prepared"
    /\ counts' = [counts EXCEPT !.prepares = @ + 1, !.heard = 0]
    /\ UNCHANGED << host, block, obs >>

\* processBlock up to its sample loop: the raw parameter values are fetched
\* once, for a buffer of numSamples samples
StartBlock(numSamples) ==
    /\ pc \in {"prepared", "idle"}
    /\ rawParamBuffer' = LoadRaw(host)
    /\ block' = [numSamples |-> numSamples, sample |-> 0,
                 loaded |-> LoadRaw(host), writes |-> counts.writes]
    /\ pc' = "block"
    /\ UNCHANGED << host, smoothed, smoothingCoeff, condL, condR, envL, envR,
                    reverbL, reverbR, delayL, delayR, dcBlock, obs, smoothLog,
                    counts >>

\* processBlock up to its sample loop, within the length of a run
BeginBlock(numSamples) ==
    /\ counts.samples + numSamples <= MaxSamples
    /\ StartBlock(numSamples)

\* silence on both channels
Silence == <<0, 0>>

\* targets fetched again from the host's parameters in every iteration
LoopTargetsReloaded == LoadRaw(host)

\* the targets an iteration of the sample loop smooths towards
LoopTargets == rawParamBuffer

\* one iteration of the sample loop of processBlock on the frame
\* (channelL[sample], channelR[sample]); the last one returns to the host
ProcessSample(frame) ==
    /\ pc = "block"
    /\ block.sample < block.numSamples
    /\ \E sm \in {Smooth(smoothed, LoopTargets, smoothingCoeff)} :
       \E l \in {ChannelSample("L", condL, envL, reverbL, delayL,
                               dcBlock.L_x1, dcBlock.L_y1, frame[1], sm)} :
       \E r \in {ChannelSample("R", condR, envR, reverbR, delayR,
                               dcBlock.R_x1, dcBlock.R_y1, frame[2], sm)} :
           /\ smoothed' = sm
           /\ condL' = l.cond /\ condR' = r.cond
           /\ envL' = l.env /\ envR' = r.env
           /\ reverbL' = l.reverb /\ reverbR' = r.reverb
           /\ delayL' = l.delay /\ delayR' = r.delay
           /\ dcBlock' = [L_x1 |-> l.x1, L_y1 |-> l.y1, R_x1 |-> r.x1, R_y1 |-> r.y1]
           /\ obs' = [ valid |-> TRUE, L |-> l.see, R |-> r.see,
                       outL |-> l.out, outR |-> r.out,
                       sm |-> sm, targets |-> LoopTargets,
                       writes |-> counts.writes,
                       heard |-> IF frame = Silence THEN counts.heard
                                 ELSE counts.heard + 1,
                       quiet |-> IF frame = Silence THEN counts.quiet + 1 ELSE 0 ]
           /\ smoothLog' = LogSmooth(smoothLog, smoothed, sm, LoopTargets,
                                     smoothingCoeff)
    /\ block' = [block EXCEPT !.sample = @ + 1]
    /\ pc' = IF block.sample + 1 = block.numSamples THEN "idle" ELSE "block"
    /\ counts' = [counts EXCEPT !.samples = @ + 1,
                                !.heard = IF frame = Silence THEN @ ELSE @ + 1,
                                !.quiet = IF frame = Silence THEN @ + 1 ELSE 0]
    /\ UNCHANGED << host, rawParamBuffer, smoothingCoeff >>

Next ==
    \/ \E snapshot \in Snapshots : HostWrite(snapshot)
    \/ \E sampleRate \in SampleRates : PrepareToPlay(sampleRate, MaxBlock)
    \/ \E numSamples \in 1 .. MaxBlock : BeginBlock(numSamples)
    \/ \E frame \in Frames : ProcessSample(frame)

Spec == Init /\ [][Next]_vars

----------------------------------------------------------------------------
\* Properties of the processor, checked under Spec

Channels == {"L", "R"}

See(ch) == IF ch = "L" THEN obs.L ELSE obs.R

Out(ch) == IF ch = "L" THEN obs.outL ELSE obs.outR

\* C1 as the specification states it: whenever the masterMix fetched from the
\* host for the block is 0, every output sample equals the dry input sample.
C1_Original ==
    (obs.valid /\ obs.targets.masterMix = 0) =>
        \A ch \in Channels : Out(ch) = See(ch).dry

\* C1: when the masterMix fetched from the host for the block is 0, the mix
\* factor m of a sample is the smoothed masterMix, which lies between 0 and
\* its previous value; the output sample is dry * (1 - m) + wet * m, and it
\* equals the dry input sample exactly when m has reached 0.
C1_DryWhenSmoothedMixIsZero ==
    (obs.valid /\ obs.targets.masterMix = 0) =>
        \A ch \in Channels :
            /\ Out(ch) = Mul(See(ch).dry, Q - obs.sm.masterMix)
                         + Mul(See(ch).dcOut, obs.sm.masterMix)
            /\ obs.sm.masterMix >= 0
            /\ obs.sm.masterMix = 0 => Out(ch) = See(ch).dry

\* the smoothed masterMix has reached 0 and the output is the dry sample
\* although the wet path carries signal
C1_Witness ==
    /\ obs.valid /\ obs.targets.masterMix = 0
    /\ obs.sm.masterMix = 0
    /\ obs.L.dry # 0 /\ obs.L.dcOut # 0
    /\ obs.outL = obs.L.dry

\* the mix factors in effect for the last sample are reverbMix = 0,
\* delayMix = 0, masterMix = 1
WetOnlyNoEffects ==
    /\ obs.valid
    /\ obs.sm.reverbMix = 0 /\ obs.sm.delayMix = 0 /\ obs.sm.masterMix = Q

\* C2 as the specification states it: with reverbMix = delayMix = 0 and
\* masterMix = 1 in effect, the output is the conditioner's output passed
\* through the DC blocker only.
C2_Original ==
    WetOnlyNoEffects =>
        \A ch \in Channels :
            Out(ch) = DCBlock(See(ch).conditioned, See(ch).dcX1, See(ch).dcY1)

\* C2: with reverbMix = delayMix = 0 and masterMix = 1 in effect, the wet sum
\* is 0 whatever the conditioner, the delay and the reverb put out, and the
\* output is the DC blocker's response to a zero input, 0 - x1 + 0.995 * y1.
C2_WetSumIsZero ==
    WetOnlyNoEffects =>
        \A ch \in Channels :
            /\ See(ch).wet = 0
            /\ Out(ch) = MulDiv(See(ch).dcY1, 995, 1000) - See(ch).dcX1

\* the three mix factors are in effect while conditioner, delay and reverb
\* all put out signal
C2_Witness ==
    /\ WetOnlyNoEffects
    /\ obs.L.conditioned # 0 /\ obs.L.revOut # 0 /\ obs.L.delOut # 0
    /\ obs.outL = 0

\* the smoothed values of a processor constructed and prepared once
FreshSmoothed == Smooth(Defaults, rawParamBuffer, smoothingCoeff)

\* C3 as the specification states it: after prepareToPlay every piece of
\* internal state, the 18 smoothed values included, is what it is in a freshly
\* prepared processor, whatever was processed before.
C3_Original ==
    pc = "prepared" =>
        /\ \A c \in {condL, condR} :
              /\ c.hpState = 0
              /\ c.bodyX1 = 0 /\ c.bodyX2 = 0 /\ c.bodyY1 = 0 /\ c.bodyY2 = 0
        /\ envL.envelope = 0 /\ envR.envelope = 0
        /\ \A r \in {reverbL, reverbR} : \A i \in Lines :
              /\ r.delayLines[i] = Fill0(r.delayLines[i])
              /\ r.writePos[i] = 0
              /\ r.dampState[i] = 0 /\ r.damp2State[i] = 0
              /\ r.lfoPhase[i] = MulDiv(i * Q, 1, NUM_LINES)
        /\ \A d \in {delayL, delayR} :
              /\ d.buffer = Fill0(d.buffer)
              /\ d.writePos = 0
              /\ d.rng = RngSeed(DelaySeed)
              /\ \A t \in Taps : /\ d.tapGainTarget[t] = Q
                                 /\ d.tapGainCurrent[t] = Q
                                 /\ d.tapTimer[t] = 0
                                 /\ d.tapDriftPhase[t] = t * 330
                                 /\ d.degradeLPState[t] = 0
        /\ dcBlock = [L_x1 |-> 0, L_y1 |-> 0, R_x1 |-> 0, R_y1 |-> 0]
        /\ smoothed = FreshSmoothed

\* the range of a parameter as handed to the module of channel ch: the right
\* channel's delayTime is scaled by 1.07 and its driftAmount by 1.15
HandedLo(ch, n) ==
    IF ch = "R" /\ n = "delayTime" THEN MulDiv(RangeLo[n], 107, 100)
    ELSE IF ch = "R" /\ n = "driftAmount" THEN MulDiv(RangeLo[n], 115, 100)
    ELSE RangeLo[n]

HandedHi(ch, n) ==
    IF ch = "R" /\ n = "delayTime" THEN MulDiv(RangeHi[n], 107, 100)
    ELSE IF ch = "R" /\ n = "driftAmount" THEN MulDiv(RangeHi[n], 115, 100)
    ELSE RangeHi[n]

\* the parameter values the modules of channel ch hold after setParameters,
\* and the three mix factors of the sample
Handed(ch) ==
    LET c == IF ch = "L" THEN condL ELSE condR
        e == IF ch = "L" THEN envL ELSE envR
        r == IF ch = "L" THEN reverbL ELSE reverbR
        d == IF ch = "L" THEN delayL ELSE delayR
    IN  [ piezoCorrect |-> c.piezoCorrect, bodyResonance |-> c.bodyResonance,
          brightness |-> c.brightness, bowSensitivity |-> e.sensitivity,
          reverbDecay |-> r.decay, reverbDampHigh |-> r.dampHighCoeff,
          reverbDampLow |-> r.dampLowCoeff, reverbModDepth |-> r.modDepth,
          reverbModRate |-> r.modRate, detuneAmount |-> r.detuneAmount,
          delayTime |-> d.delayTimeMs, delayFeedback |-> d.feedback,
          vanishRate |-> d.vanishRate, degradeAmount |-> d.degradeAmount,
          driftAmount |-> d.driftAmount,
          reverbMix |-> obs.sm.reverbMix, delayMix |-> obs.sm.delayMix,
          masterMix |-> obs.sm.masterMix ]

\* C4 as the specification states it: whatever raw values the host supplies,
\* the values the core hands to its modules and uses as mix factors lie in
\* the declared ranges (they are clamped).
C4_Original ==
    obs.valid =>
        \A ch \in Channels : \A n \in ParamNames :
            /\ HandedLo(ch, n) <= Handed(ch)[n]
            /\ Handed(ch)[n] <= HandedHi(ch, n)

\* C7: for every tap of both delays and any delayTime and driftAmount, the
\* delay length used for interpolation lies in [1, bufferSize - 1] and the
\* interpolation indices readIdx0 and readIdx1 lie in [0, bufferSize).
C7_DelayReadInBounds ==
    obs.valid =>
        \A ch \in Channels : \A t \in Taps :
            /\ Q <= See(ch).tapDelay[t]
            /\ See(ch).tapDelay[t] <= (See(ch).bufSize - 1) * Q
            /\ See(ch).tapIdx0[t] \in 0 .. See(ch).bufSize - 1
            /\ See(ch).tapIdx1[t] \in 0 .. See(ch).bufSize - 1

\* an out-of-range delayTime is in effect and the first tap's delay length
\* sits at the upper limit bufferSize - 1
C7_Witness ==
    /\ obs.valid
    /\ obs.sm.delayTime > RangeHi.delayTime
    /\ \E ch \in Channels :
          /\ MulDiv(DelayTimeFor(ch, obs.sm), See(ch).bufSize \div 2, Q)
                 > See(ch).bufSize * Q
          /\ See(ch).tapDelay[0] = (See(ch).bufSize - 1) * Q

\* C8: the conditioner's return value lies in [-1, 1] and the body-resonance
\* value that enters the blend lies in [-10, 10], for both channels.
C8_ConditionerBounded ==
    obs.valid =>
        \A ch \in Channels :
            /\ -Q <= See(ch).conditioned /\ See(ch).conditioned <= Q
            /\ -10 * Q <= See(ch).body /\ See(ch).body <= 10 * Q

\* both clamps acted: the filter output was outside [-10, 10] and the
\* brightness blend outside [-1, 1]
C8_Witness ==
    /\ obs.valid
    /\ Abs(obs.L.bodyRaw) > 10 * Q /\ Abs(obs.L.body) = 10 * Q
    /\ Abs(obs.L.brightOut) > Q /\ Abs(obs.L.conditioned) = Q

RECURSIVE Decay(_, _, _)
\* d * coeff^n, rounded after every factor
Decay(d, coeff, n) == IF n = 0 THEN d ELSE Decay(MulDiv(d, coeff, Q), coeff, n - 1)

\* v lies between a and b
Between(a, v, b) == Min(a, b) <= v /\ v <= Max(a, b)

\* C9: a call of smooth leaves each of the 18 values between its previous
\* value and its target (no overshoot), and after n calls with a constant
\* target the value is target - (target - initial) * coeff^n, up to the
\* rounding of the n steps.
C9_SmoothConvex ==
    smoothLog.n > 0 =>
        \A p \in ParamNames :
            /\ Between(smoothLog.before[p], smoothLog.after[p], smoothLog.targets[p])
            /\ Abs(smoothLog.after[p]
                   - (smoothLog.targets[p]
                      - Decay(smoothLog.targets[p] - smoothLog.start[p],
                              smoothLog.coeff, smoothLog.n)))
                  <= smoothLog.n

\* the third call in a row with the same targets, with values still moving
\* from below (masterMix) and from above (delayMix)
C9_Witness ==
    /\ smoothLog.n >= 3
    /\ smoothLog.before.masterMix < smoothLog.after.masterMix
    /\ smoothLog.after.masterMix < smoothLog.targets.masterMix
    /\ smoothLog.before.delayMix > smoothLog.after.delayMix
    /\ smoothLog.after.delayMix >= smoothLog.targets.delayMix

\* C10: the raw parameters are fetched once per block, before the sample
\* loop: the targets of every sample are the values the host held when the
\* block began, whatever the control thread has written since.
C10_TargetsFixedPerBlock ==
    /\ pc = "block" => rawParamBuffer = block.loaded
    /\ (obs.valid /\ obs.writes >= block.writes /\ block.sample > 0) =>
           obs.targets = block.loaded

\* a sample was processed after the control thread wrote a different
\* snapshot during the block
C10_Witness ==
    /\ obs.valid /\ block.sample > 0
    /\ obs.writes > block.writes
    /\ host # block.loaded
    /\ obs.targets = block.loaded

----------------------------------------------------------------------------
\* the modules and the DC blocker state of a channel
CondOf(ch) == IF ch = "L" THEN condL ELSE condR
EnvOf(ch) == IF ch = "L" THEN envL ELSE envR
ReverbOf(ch) == IF ch = "L" THEN reverbL ELSE reverbR
DelayOf(ch) == IF ch = "L" THEN delayL ELSE delayR
DcX1(ch) == IF ch = "L" THEN dcBlock.L_x1 ELSE dcBlock.R_x1
DcY1(ch) == IF ch = "L" THEN dcBlock.L_y1 ELSE dcBlock.R_y1

\* a step that processes one sample
SampleStep == counts'.samples = counts.samples + 1

\* C11: every iteration of the sample loop runs its stages in one order.  The
\* smoother advances exactly once, from the values the previous iteration
\* left, and every module works with the values of this advance; the
\* conditioner takes the dry sample, the envelope follower and the delay take
\* the conditioned sample, the reverb takes the conditioned sample plus the
\* delay output of this same sample, the wet sum takes the reverb and delay
\* outputs of this sample, the DC blocker takes the wet sum, and the dry/wet
\* mix writes the output from the dry sample captured first.
C11_StagesInOrder ==
    [][ SampleStep =>
        /\ smoothed' = Smooth(smoothed, rawParamBuffer, smoothingCoeff)
        /\ obs'.sm = smoothed'
        /\ \A ch \in Channels :
           \A sm \in {smoothed'} :
           \A c \in {CondProcess(CondSetParameters(CondOf(ch), sm.piezoCorrect,
                         sm.bodyResonance, sm.brightness), See(ch)'.dry)} :
           \A e \in {EnvProcess(EnvSetSensitivity(EnvOf(ch), sm.bowSensitivity),
                         c.out)} :
           \A d \in {DelayProcess(DelaySetParameters(DelayOf(ch),
                         DelayTimeFor(ch, sm), sm.delayFeedback, sm.vanishRate,
                         sm.degradeAmount, DriftFor(ch, sm)), c.out)} :
           \A r \in {FDNProcess(FDNSetParameters(ReverbOf(ch), sm.reverbDecay,
                         sm.reverbDampHigh, sm.reverbDampLow, sm.reverbModDepth,
                         sm.reverbModRate, sm.detuneAmount),
                         c.out + Mul(d.out, sm.delayMix))} :
           \A wet \in {Mul(r.out, sm.reverbMix) + Mul(d.out, sm.delayMix)} :
           \A dc \in {wet - DcX1(ch) + MulDiv(DcY1(ch), 995, 1000)} :
               /\ CondOf(ch)' = c.state /\ See(ch)'.conditioned = c.out
               /\ EnvOf(ch)' = e.state /\ See(ch)'.envOut = e.out
               /\ DelayOf(ch)' = d.state /\ See(ch)'.delOut = d.out
               /\ See(ch)'.reverbIn = c.out + Mul(d.out, sm.delayMix)
               /\ ReverbOf(ch)' = r.state /\ See(ch)'.revOut = r.out
               /\ See(ch)'.wet = wet /\ DcX1(ch)' = wet
               /\ See(ch)'.dcOut = dc /\ DcY1(ch)' = dc
               /\ Out(ch)' = Mul(See(ch)'.dry, Q - sm.masterMix)
                             + Mul(dc, sm.masterMix) ]_vars

\* an iteration in which the smoothed values moved, the modules hold the
\* moved values, and the delay output of the sample entered the reverb
C11_Witness ==
    /\ obs.valid /\ pc \in {"block", "idle"} /\ counts.samples >= 2
    /\ smoothLog.after = obs.sm /\ smoothLog.before # smoothLog.after
    /\ \A ch \in Channels :
        /\ CondOf(ch).piezoCorrect = obs.sm.piezoCorrect
        /\ ReverbOf(ch).decay = obs.sm.reverbDecay
        /\ DelayOf(ch).feedback = obs.sm.delayFeedback
    /\ obs.L.delOut # 0
    /\ obs.L.reverbIn # obs.L.conditioned

\* the parameters whose values differ between the channels
Widened == {"delayTime", "driftAmount"}

\* C12: in every iteration the modules of the left channel are handed the
\* smoothed values of the iteration as they are, and the modules of the right
\* channel the same values, except that the right delay gets delayTime * 1.07
\* and driftAmount * 1.15; conditioner, envelope follower and reverb
\* parameters and the three mix factors are the same on both channels.
C12_RightChannelOffsets ==
    obs.valid =>
        /\ Handed("L") = obs.sm
        /\ \A n \in ParamNames \ Widened : Handed("R")[n] = Handed("L")[n]
        /\ Handed("R").delayTime = MulDiv(Handed("L").delayTime, 107, 100)
        /\ Handed("R").driftAmount = MulDiv(Handed("L").driftAmount, 115, 100)

\* an iteration after which the right delay holds a longer delay time and a
\* larger drift than the left one, everything else being equal
C12_Witness ==
    /\ obs.valid
    /\ delayL.delayTimeMs > 0 /\ delayR.delayTimeMs > delayL.delayTimeMs
    /\ delayL.driftAmount > 0 /\ delayR.driftAmount > delayL.driftAmount
    /\ delayR.feedback = delayL.feedback /\ delayR.vanishRate = delayL.vanishRate
    /\ reverbR.decay = reverbL.decay /\ condR.brightness = condL.brightness
    /\ obs.sm # Defaults

\* the sensitivities of a second run
OtherSensitivities == {0, Q}

\* C16: the envelope follower is a side channel.  Had the iteration been run
\* with another bowSensitivity (another smoothed value and another value held
\* by the follower), the written sample, the conditioner, reverb, delay and DC
\* blocker states and the follower's envelope would be the same: only the
\* value the follower returns, which nothing reads, depends on it.  The
\* smoothing of the 17 other parameters does not depend on it either.  After
\* the iteration getCurrent returns the envelope updated with the conditioned
\* sample of this iteration.
C16_EnvelopeSideChannel ==
    [][ SampleStep =>
        /\ \A s \in OtherSensitivities : \A n \in ParamNames \ {"bowSensitivity"} :
              Smooth([smoothed EXCEPT !.bowSensitivity = s],
                     [rawParamBuffer EXCEPT !.bowSensitivity = s],
                     smoothingCoeff)[n] = smoothed'[n]
        /\ \A ch \in Channels : \A s \in OtherSensitivities :
           \A other \in {ChannelSample(ch, CondOf(ch),
                             [EnvOf(ch) EXCEPT !.sensitivity = s], ReverbOf(ch),
                             DelayOf(ch), DcX1(ch), DcY1(ch), See(ch)'.dry,
                             [smoothed' EXCEPT !.bowSensitivity = s])} :
               /\ other.out = Out(ch)'
               /\ other.cond = CondOf(ch)'
               /\ other.reverb = ReverbOf(ch)'
               /\ other.delay = DelayOf(ch)'
               /\ other.x1 = DcX1(ch)' /\ other.y1 = DcY1(ch)'
               /\ EnvGetCurrent(other.env) = EnvGetCurrent(EnvOf(ch)')
        /\ \A ch \in Channels :
           \A a \in {Abs(See(ch)'.conditioned)} :
               EnvGetCurrent(EnvOf(ch)') =
                   a + Mul(EnvGetCurrent(EnvOf(ch)) - a,
                           IF a > EnvGetCurrent(EnvOf(ch))
                           THEN EnvOf(ch).attackCoeff ELSE EnvOf(ch).releaseCoeff) ]_vars

\* a sample was written while the follower tracked a signal, and the value
\* the follower returned would have been another one with sensitivity 0
C16_Witness ==
    /\ obs.valid /\ pc \in {"block", "idle"}
    /\ obs.outL # 0 /\ obs.L.conditioned # 0
    /\ EnvGetCurrent(envL) > 0
    /\ obs.L.envOut > 0
    /\ obs.L.envOut # Mul(EnvGetCurrent(envL), Q \div 2)

\* C20 as the specification states it: when prepareToPlay returns, each of
\* the 18 smoothed values equals the raw value loaded from the host, so that
\* the first sample is processed with the host's settings and no ramp.
C20_Original == pc = "prepared" => smoothed = rawParamBuffer

\* AbyssFDNReverb on its own: one reverb (reverbL) that a caller prepares,
\* clears, configures and runs

\* the arguments of setParameters: decayTime, dampHigh, dampLow, modDepth,
\* modRate, detuneAmount
FDNSettings ==
    { <<6000, 700, 300, 500, 300, 0>>,
      <<6000, 700, 300, 0, 300, 0>>,
      <<500, 950, 800, 3000, 2000, 1000>>,
      <<0, 700, 300, 500, 300, 0>>,
      <<-1000, 700, 300, 500, 300, 0>> }

\* the input samples of the reverb
FDNInputs == { 0, 1000, -500 }

FDNIdle ==
    UNCHANGED << host, rawParamBuffer, smoothed, smoothingCoeff, condL, condR,
                 envL, envR, reverbR, delayL, delayR, dcBlock, block, smoothLog >>

FDNPrepareStep(sampleRate) ==
    /\ counts.prepares < MaxPrepares
    /\ reverbL' = FDNPrepare(reverbL, sampleRate)
    /\ pc' = "prepared"
    /\ counts' = [counts EXCEPT !.prepares = @ + 1]
    /\ UNCHANGED obs
    /\ FDNIdle

FDNClearStep ==
    /\ pc = "prepared"
    /\ reverbL # FDNClear(reverbL)
    /\ reverbL' = FDNClear(reverbL)
    /\ UNCHANGED << pc, counts, obs >>
    /\ FDNIdle

FDNSetParametersStep(p) ==
    /\ counts.writes < MaxHostWrites
    /\ reverbL' = FDNSetParameters(reverbL, p[1], p[2], p[3], p[4], p[5], p[6])
    /\ counts' = [counts EXCEPT !.writes = @ + 1]
    /\ UNCHANGED << pc, obs >>
    /\ FDNIdle

FDNProcessStep(input) ==
    /\ pc = "prepared"
    /\ counts.samples < MaxSamples
    /\ \E r \in {FDNProcess(reverbL, input)} :
          /\ reverbL' = r.state
          /\ obs' = [NoObs EXCEPT !.valid = TRUE,
                                  !.L = [NoSee EXCEPT !.reverbIn = input,
                                                      !.revOut = r.out,
                                                      !.g = r.g,
                                                      !.divisor = r.divisor,
                                                      !.lineOut = r.outputs,
                                                      !.mixed = r.mixed,
                                                      !.lineIdx0 = r.idx0,
                                                      !.lineIdx1 = r.idx1,
                                                      !.linePos = r.pos,
                                                      !.lineMod = r.mod]]
    /\ counts' = [counts EXCEPT !.samples = @ + 1]
    /\ UNCHANGED pc
    /\ FDNIdle

NextFDN ==
    \/ \E sampleRate \in SampleRates : FDNPrepareStep(sampleRate)
    \/ FDNClearStep
    \/ \E p \in FDNSettings : FDNSetParametersStep(p)
    \/ \E input \in FDNInputs : FDNProcessStep(input)

SpecFDN == Init /\ [][NextFDN]_vars

\* C5 as the specification states it: for any decay passed to setParameters,
\* zero and negative ones included, process() divides by a positive
\* decay * sampleRate and every line's gain g satisfies 0 <= g < 1.
C5_Original ==
    obs.valid =>
        /\ obs.L.divisor > 0
        /\ \A i \in Lines : 0 <= obs.L.g[i] /\ obs.L.g[i] < Q

----------------------------------------------------------------------------
\* VanishingDelay on its own: two instances, A (delayL) and B (delayR),
\* prepared with the same sample rate and driven with the same calls

\* the arguments of setParameters: delayTimeMs, feedback, vanishRate,
\* degradeAmount, driftAmount
DelaySettings ==
    { <<400000, 500, 300, 300, 2000>>,
      <<50000, 500, 800, 300, 2000>>,
      <<25000, 900, 0, 1000, 10000>> }

\* the input samples of the delays
DelayInputs == { 1000, -500 }

DelayIdle ==
    UNCHANGED << host, rawParamBuffer, smoothed, smoothingCoeff, condL, condR,
                 envL, envR, reverbL, reverbR, dcBlock, block, smoothLog >>

\* only the sample rate is common: the block sizes may differ
DelayPrepareStep(sampleRate, blockA, blockB) ==
    /\ counts.prepares < MaxPrepares
    /\ delayL' = DelayPrepare(delayL, sampleRate, blockA)
    /\ delayR' = DelayPrepare(delayR, sampleRate, blockB)
    /\ pc' = "prepared"
    /\ counts' = [counts EXCEPT !.prepares = @ + 1]
    /\ UNCHANGED obs
    /\ DelayIdle

DelaySetParametersStep(p) ==
    /\ counts.writes < MaxHostWrites
    /\ delayL' = DelaySetParameters(delayL, p[1], p[2], p[3], p[4], p[5])
    /\ delayR' = DelaySetParameters(delayR, p[1], p[2], p[3], p[4], p[5])
    /\ counts' = [counts EXCEPT !.writes = @ + 1]
    /\ UNCHANGED << pc, obs >>
    /\ DelayIdle

DelayProcessStep(input) ==
    /\ pc = "prepared"
    /\ counts.samples < MaxSamples
    /\ \E a \in {DelayProcess(delayL, input)} :
       \E b \in {DelayProcess(delayR, input)} :
          /\ delayL' = a.state
          /\ delayR' = b.state
          /\ obs' = [NoObs EXCEPT
                        !.valid = TRUE,
                        !.L = [NoSee EXCEPT !.conditioned = input, !.delOut = a.out,
                                            !.tapDelay = a.delay, !.tapIdx0 = a.idx0,
                                            !.tapIdx1 = a.idx1, !.reroll = a.reroll,
                                            !.bufSize = Len(delayL.buffer)],
                        !.R = [NoSee EXCEPT !.conditioned = input, !.delOut = b.out,
                                            !.tapDelay = b.delay, !.tapIdx0 = b.idx0,
                                            !.tapIdx1 = b.idx1, !.reroll = b.reroll,
                                            !.bufSize = Len(delayR.buffer)]]
    /\ counts' = [counts EXCEPT !.samples = @ + 1]
    /\ UNCHANGED pc
    /\ DelayIdle

NextDelay ==
    \/ \E sampleRate \in SampleRates : \E blockA \in 1 .. MaxBlock :
          DelayPrepareStep(sampleRate, blockA, MaxBlock)
    \/ \E p \in DelaySettings : DelaySetParametersStep(p)
    \/ \E input \in DelayInputs : DelayProcessStep(input)

SpecDelay == Init /\ [][NextDelay]_vars

-----------------------------------------------------------------------------
\* the feedback matrix on its own: the mix of the eight line outputs, before
\* its scaling, applied to vectors drawn from a small set

\* the values a line output takes
MixValues == {-Q, 0, 700}

\* a vector of line outputs is given
InitMix ==
    /\ Constructed
    /\ \E v \in [Lines -> MixValues] : obs = [NoObs EXCEPT !.L.lineOut = v]

\* the inner loops of the feedback computation, without "feedback[i] *= scale"
MixStep ==
    /\ ~obs.valid
    /\ obs' = [obs EXCEPT !.valid = TRUE,
                          !.L.mixed = [i \in Lines |-> HadamardMix(obs.L.lineOut, i)]]
    /\ UNCHANGED << pc, host, rawParamBuffer, smoothed, smoothingCoeff, condL,
                    condR, envL, envR, reverbL, reverbR, delayL, delayR, dcBlock,
                    block, smoothLog, counts >>

NextMix == MixStep

SpecMix == InitMix /\ [][NextMix]_vars

\* the dot product of rows i and k of the feedback matrix
RowDot(i, k) == SumTo([j \in Lines |-> Hadamard[i][j] * Hadamard[k][j]], NUM_LINES - 1)

\* the sum of the squares of a vector's eight entries
SumSq(v) == SumTo([j \in Lines |-> v[j] * v[j]], NUM_LINES - 1)

\* C13: the feedback matrix is orthogonal.  Its entry (i, j) is +1 when
\* popcount(i & j) is even and -1 otherwise, two distinct rows have dot
\* product 0, every row has squared norm 8, and so the sum of the squares of
\* the eight feedback values before scaling is 8 times the sum of the squares
\* of the eight line outputs.
C13_HadamardOrthogonal ==
    /\ \A i \in Lines : \A j \in Lines :
          Hadamard[i][j] = IF Popcount(BitAnd(i, j)) % 2 = 0 THEN 1 ELSE -1
    /\ \A i \in Lines : \A k \in Lines :
          RowDot(i, k) = IF i = k THEN NUM_LINES ELSE 0
    /\ obs.valid => SumSq(obs.L.mixed) = NUM_LINES * SumSq(obs.L.lineOut)

\* the matrix was applied to line outputs of mixed signs and magnitudes, and
\* the result has energy in more than one line
C13_Witness ==
    /\ obs.valid
    /\ \E i \in Lines : \E j \in Lines : \E k \in Lines :
          obs.L.lineOut[i] > 0 /\ obs.L.lineOut[j] < 0 /\ obs.L.lineOut[k] = 0
    /\ \E i \in Lines : \E j \in Lines :
          i # j /\ obs.L.mixed[i] # 0 /\ obs.L.mixed[j] # 0
    /\ SumSq(obs.L.mixed) > 0

-----------------------------------------------------------------------------
\* the DC blocker on its own: the left blocker, from the state prepareToPlay
\* leaves it in, fed one constant wet value on every sample

\* the constant wet values
DCInputs == {-20000, -1000, 300, 1000, 5000, 20000}

\* the blocker is reset and a wet value is chosen
InitDC ==
    /\ Constructed
    /\ \E c \in DCInputs : obs = [NoObs EXCEPT !.L.wet = c]

\* the DC blocker lines of one iteration, left channel
DCStep ==
    /\ counts.samples < MaxDCSamples
    /\ \E dcOut \in {DCBlock(obs.L.wet, dcBlock.L_x1, dcBlock.L_y1)} :
          /\ dcBlock' = [dcBlock EXCEPT !.L_x1 = obs.L.wet, !.L_y1 = dcOut]
          /\ obs' = [obs EXCEPT !.valid = TRUE,
                                !.L.dcX1 = dcBlock.L_x1, !.L.dcY1 = dcBlock.L_y1,
                                !.L.dcOut = dcOut]
    /\ counts' = [counts EXCEPT !.samples = @ + 1]
    /\ UNCHANGED << pc, host, rawParamBuffer, smoothed, smoothingCoeff, condL,
                    condR, envL, envR, reverbL, reverbR, delayL, delayR, block,
                    smoothLog >>

NextDC == DCStep

SpecDC == InitDC /\ [][NextDC]_vars

\* C14: fed a constant wet value c from its reset state, the DC blocker puts
\* out c on the first sample and 0.995 times its previous output on every
\* later sample: the n-th output is c * 0.995^(n-1), of the sign of c, and its
\* magnitude shrinks on every sample, so no constant other than zero is a
\* steady output.
C14_DCBlockDecays ==
    [][ SampleStep =>
        /\ obs'.L.dcOut = dcBlock'.L_y1
        /\ dcBlock'.L_x1 = obs.L.wet
        /\ counts.samples = 0 => dcBlock'.L_y1 = obs.L.wet
        /\ counts.samples > 0 =>
              /\ dcBlock'.L_y1 = MulDiv(dcBlock.L_y1, 995, 1000)
              /\ dcBlock'.L_y1 = Decay(obs.L.wet, 995, counts.samples)
              /\ Abs(dcBlock'.L_y1) < Abs(dcBlock.L_y1)
              /\ dcBlock'.L_y1 * obs.L.wet > 0 ]_vars

\* ten samples of a constant wet value went in and the output has shrunk
\* below it without reaching zero
C14_Witness ==
    /\ obs.valid /\ counts.samples >= 10
    /\ dcBlock.L_x1 = obs.L.wet
    /\ obs.L.dcOut # 0
    /\ Abs(obs.L.dcOut) < Abs(obs.L.wet)
    /\ obs.L.dcOut = Decay(obs.L.wet, 995, counts.samples - 1)

-----------------------------------------------------------------------------
\* the processor fed silence: the host sets the parameters, prepares, and
\* hands in blocks of one frame; only the first frame of a run may carry
\* sound, and prepareToPlay may be called again right after it

\* the lowest sample rate: the delay buffer is 80 samples long
SilenceRate == 40

\* no delay feedback, no vanishing taps, the longest reverb decay
Ringing ==
    [Defaults EXCEPT !.delayFeedback = 0, !.vanishRate = 0, !.reverbDecay = 30000]

\* the number of samples a run lasts
SilenceHorizon == Few * 2 * SilenceRate + MaxBlock

SilenceHostWrite == pc = "constructed" /\ HostWrite(Ringing)

SilencePrepare ==
    /\ counts.samples < MaxBlock
    /\ \E sampleRate \in SampleRates : PrepareToPlay(sampleRate, 1)

SilenceBlock == counts.samples < SilenceHorizon /\ StartBlock(1)

SilenceSample(frame) ==
    /\ counts.samples = 0 \/ frame = Silence
    /\ ProcessSample(frame)

NextSilence ==
    \/ SilenceHostWrite
    \/ SilencePrepare
    \/ SilenceBlock
    \/ \E frame \in Frames : SilenceSample(frame)

SpecSilence == Init /\ [][NextSilence]_vars

\* the four module outputs and the written output of channel ch are zero
AllZero(ch) ==
    /\ See(ch).conditioned = 0 /\ See(ch).delOut = 0
    /\ See(ch).revOut = 0 /\ See(ch).dcOut = 0
    /\ Out(ch) = 0

\* silence has lasted a few times the length of the delay buffer, the
\* longest line, with delay feedback 0 and vanishRate 0
LongSilence ==
    /\ obs.valid
    /\ obs.quiet >= Few * obs.L.bufSize
    /\ host.delayFeedback = 0 /\ host.vanishRate = 0
    /\ obs.sm.delayFeedback = 0 /\ obs.sm.vanishRate = 0

\* C15 as the specification states it: once silence has been fed for a few
\* times the longest line length, with delay feedback 0 and vanishRate 0,
\* every module's output is zero.
C15_Original == LongSilence => \A ch \in Channels : AllZero(ch)

\* C15: when every frame since the last prepareToPlay was silence, the
\* output of the conditioner, of the delay, of the reverb and of the DC
\* blocker, and the written output, are zero at every sample, whatever the
\* parameters.
C15_SilentWhenFresh ==
    (obs.valid /\ obs.heard = 0) => \A ch \in Channels : AllZero(ch)

\* silence was processed after a prepareToPlay that followed a frame of sound
C15_Witness ==
    /\ obs.valid /\ obs.heard = 0 /\ obs.quiet >= 2
    /\ counts.samples > obs.quiet
    /\ \A ch \in Channels : AllZero(ch)

\* the write cursors of channel ch lie inside their buffers
CursorsInRange(ch) ==
    /\ \A i \in Lines :
          /\ Len(ReverbOf(ch).delayLines[i]) >= 1
          /\ ReverbOf(ch).writePos[i] \in 0 .. (Len(ReverbOf(ch).delayLines[i]) - 1)
    /\ Len(DelayOf(ch).buffer) >= 1
    /\ DelayOf(ch).writePos \in 0 .. (Len(DelayOf(ch).buffer) - 1)

\* C17: once prepared, every write cursor lies in [0, length) of its buffer.
\* A step other than prepareToPlay leaves the length of every reverb line and
\* of the delay buffer as it is.  An iteration of the sample loop writes at
\* the cursor and advances every cursor by exactly one, wrapping at the
\* length, and every index it reads at lies in [0, length), whatever the LFO
\* offsets of the iteration.
C17_BufferGeometry ==
    [][ /\ pc' # "constructed" => \A ch \in Channels : CursorsInRange(ch)'
        /\ counts'.prepares = counts.prepares =>
              \A ch \in Channels :
                 /\ \A i \in Lines : Len(ReverbOf(ch)'.delayLines[i])
                                     = Len(ReverbOf(ch).delayLines[i])
                 /\ Len(DelayOf(ch)'.buffer) = Len(DelayOf(ch).buffer)
        /\ SampleStep =>
              \A ch \in Channels :
                 /\ \A i \in Lines :
                    \A len \in {Len(ReverbOf(ch).delayLines[i])} :
                       /\ ReverbOf(ch)'.writePos[i]
                          = IF ReverbOf(ch).writePos[i] = len - 1 THEN 0
                            ELSE ReverbOf(ch).writePos[i] + 1
                       /\ See(ch)'.lineIdx0[i] \in 0 .. (len - 1)
                       /\ See(ch)'.lineIdx1[i] \in 0 .. (len - 1)
                 /\ \A len \in {Len(DelayOf(ch).buffer)} :
                       /\ DelayOf(ch)'.writePos
                          = IF DelayOf(ch).writePos = len - 1 THEN 0
                            ELSE DelayOf(ch).writePos + 1
                       /\ See(ch)'.bufSize = len
                       /\ \A t \in Taps :
                             /\ See(ch)'.tapIdx0[t] \in 0 .. (len - 1)
                             /\ See(ch)'.tapIdx1[t] \in 0 .. (len - 1) ]_vars

\* more than a buffer length of samples after prepareToPlay the delay's write
\* cursor has wrapped and is back near the start of its buffer, and a tap
\* read from before the wrap, at an index beyond the cursor
C17_Witness ==
    /\ obs.valid /\ pc = "idle"
    /\ counts.samples > Len(delayL.buffer)
    /\ delayL.writePos \in 1 .. 3
    /\ \E t \in Taps : obs.L.tapIdx0[t] > delayL.writePos
    /\ \A i \in Lines : reverbL.writePos[i] \in 0 .. (Len(reverbL.delayLines[i]) - 1)

\* C18: in every iteration each tap's current gain moves toward the tap's
\* target of this iteration by 0.001 times their difference: it ends between
\* its previous value and the target, stays within [0, 1], and changes by at
\* most 0.001, also in an iteration where a vanish or return event has just
\* changed the target.
C18_TapGainGlides ==
    [][ SampleStep =>
        \A ch \in Channels : \A t \in Taps :
        \A cur \in {DelayOf(ch).tapGainCurrent[t]} :
        \A new \in {DelayOf(ch)'.tapGainCurrent[t]} :
        \A target \in {DelayOf(ch)'.tapGainTarget[t]} :
            /\ new = cur + MulDiv(target - cur, 1, 1000)
            /\ Between(cur, new, target)
            /\ 0 <= new /\ new <= Q
            /\ 0 <= target /\ target <= Q
            /\ Abs(new - cur) <= Q \div 1000 ]_vars

\* a tap whose target was set to 0 is fading out: its gain has left 1 by
\* several steps of 0.001 and is still far from 0, and in this iteration
\* another event changed a target
C18_Witness ==
    /\ obs.valid /\ pc = "idle"
    /\ \E t \in Taps :
          /\ delayL.tapGainTarget[t] = 0
          /\ delayL.tapGainCurrent[t] < Q - 5
          /\ delayL.tapGainCurrent[t] > Q \div 2
    /\ \E t \in Taps : obs.L.reroll[t]

\* C19: a tap's target changes only in an iteration in which the tap's
\* timer, decremented, is at or below 0.  In such an iteration the target
\* becomes 0 or a value in [0.3, 1.0] -- for the first tap, 0 exactly when the
\* roll drawn is below vanishRate -- and never 0 when vanishRate is 0, and the
\* timer is set to a number of samples between 0.05 s and 0.4 s.  In any
\* other iteration the timer goes down by one and the target stays.  So after
\* every iteration each timer is at least 1, and two re-rolls of a tap are
\* between 0.05 sr and 0.4 sr samples apart.
C19_VanishTimers ==
    [][ SampleStep =>
        \A ch \in Channels : \A t \in Taps :
        \A d \in {DelayOf(ch)} : \A e \in {DelayOf(ch)'} :
            /\ e.tapGainTarget[t] # d.tapGainTarget[t] => d.tapTimer[t] - 1 <= 0
            /\ d.tapTimer[t] - 1 <= 0 =>
                  /\ e.tapTimer[t] >= (e.sr * 5) \div 100
                  /\ e.tapTimer[t] <= (e.sr * 4) \div 10
                  /\ \/ e.tapGainTarget[t] = 0
                     \/ Between(MulDiv(Q, 3, 10), e.tapGainTarget[t], Q)
                  /\ e.vanishRate = 0 => e.tapGainTarget[t] # 0
                  /\ t = 0 => (e.tapGainTarget[t] = 0
                               <=> RngUnit(RngNext(d.rng)) < e.vanishRate)
            /\ d.tapTimer[t] - 1 > 0 =>
                  /\ e.tapTimer[t] = d.tapTimer[t] - 1
                  /\ e.tapGainTarget[t] = d.tapGainTarget[t]
            /\ e.tapTimer[t] >= 1 ]_vars

\* well after the first iteration a tap's timer ran out again: in this
\* iteration one tap vanished and one returned at a reduced level, and both
\* got new timers
C19_Witness ==
    /\ obs.valid /\ pc = "idle" /\ counts.samples >= 3
    /\ delayL.vanishRate > 0
    /\ \E t \in Taps : \E u \in Taps :
          /\ obs.L.reroll[t] /\ delayL.tapGainTarget[t] = 0
          /\ obs.L.reroll[u] /\ delayL.tapGainTarget[u] >= MulDiv(Q, 3, 10)
          /\ delayL.tapTimer[t] >= TimerLo(delayL.sr)
          /\ delayL.tapTimer[u] <= TimerHi(delayL.sr)

\* C21: the two delays are seeded alike in prepare and are handed the same
\* vanishRate in every iteration, so they draw the same random sequence: in
\* every state, for each tap, the left and right timers, target gains and
\* current gains are equal and the two generators are in the same state, and
\* the vanish and return events of an iteration fall on the same taps of both
\* channels.
C21_TapsAlikeOnBothChannels ==
    /\ delayL.rng = delayR.rng
    /\ \A t \in Taps :
          /\ delayL.tapTimer[t] = delayR.tapTimer[t]
          /\ delayL.tapGainTarget[t] = delayR.tapGainTarget[t]
          /\ delayL.tapGainCurrent[t] = delayR.tapGainCurrent[t]
    /\ obs.valid => obs.L.reroll = obs.R.reroll

\* well after prepareToPlay, with the right delay running on a longer delay
\* time than the left one, a tap vanished and a tap returned on both channels
\* in the same iteration, and a gain is gliding
C21_Witness ==
    /\ obs.valid /\ pc = "idle" /\ counts.samples >= 3
    /\ delayR.delayTimeMs > delayL.delayTimeMs
    /\ delayL.vanishRate > 0
    /\ \E t \in Taps : \E u \in Taps :
          /\ obs.L.reroll[t] /\ obs.R.reroll[t]
          /\ delayL.tapGainTarget[t] = 0 /\ delayR.tapGainTarget[t] = 0
          /\ obs.L.reroll[u] /\ obs.R.reroll[u]
          /\ delayR.tapGainTarget[u] >= MulDiv(Q, 3, 10)
    /\ \E t \in Taps : delayR.tapGainCurrent[t] \in 1 .. (Q - 1)

\* the distance, in samples back from write cursor writePos, of read position
\* pos in a line of len samples: a position on the cursor is len back
ReadDelay(writePos, len, pos) ==
    Only({ IF d = 0 THEN len * Q ELSE d : d \in {(writePos * Q - pos) % (len * Q)} })

\* C22: the reverb reads line i at writePos - len + modSamples wrapped into
\* [0, len), between the indices floor(pos) and floor(pos) + 1 (wrapped).
\* The read is therefore len - modSamples back from the write cursor modulo
\* len, and never more than len: with offset 0 it is the oldest sample, at
\* the cursor; with a positive offset m the delay is len - m; with a negative
\* offset -m the read wraps round the cursor and the delay is m, not len + m.
C22_ReadWrapsAtLength ==
    [][ SampleStep =>
        \A i \in Lines :
        \A len \in {Len(reverbL.delayLines[i])} :
        \A pos \in {obs'.L.linePos[i]} :
        \A mod \in {obs'.L.lineMod[i]} :
        \A delay \in {ReadDelay(reverbL.writePos[i], len, pos)} :
            /\ 0 <= pos /\ pos < len * Q
            /\ (pos - (reverbL.writePos[i] * Q - len * Q + mod)) % (len * Q) = 0
            /\ obs'.L.lineIdx0[i] = pos \div Q
            /\ obs'.L.lineIdx1[i] = IF pos \div Q = len - 1 THEN 0 ELSE pos \div Q + 1
            /\ delay <= len * Q
            /\ (delay + mod) % (len * Q) = 0
            /\ mod = 0 => delay = len * Q /\ obs'.L.lineIdx0[i] = reverbL.writePos[i]
            /\ (0 < mod /\ mod < len * Q) => delay = len * Q - mod
            /\ (0 < -mod /\ -mod <= len * Q) => delay = -mod ]_vars

\* one call read a line of more than one sample with a negative offset, the
\* read position having wrapped round the write cursor, and another line
\* with a positive offset
C22_Witness ==
    /\ obs.valid
    /\ \E i \in Lines : \E j \in Lines :
          /\ Len(reverbL.delayLines[i]) > 1 /\ Len(reverbL.delayLines[j]) > 1
          /\ obs.L.lineMod[i] < 0 /\ obs.L.lineMod[j] > 0
          /\ obs.L.linePos[i] % Q # 0
          /\ obs.L.lineIdx1[j] < obs.L.lineIdx0[j]

====
